---- MODULE Spec2Model ----
(***************************************************************************)
(* The hybrid movie recommender of interactive.py (MovieRecommender: the   *)
(* Catalog `movies`, the UserDirectory `users`, `current_user`, `graph`)   *)
(* with the rating graph and the similarity search of user_movie_graph.py. *)
(*                                                                         *)
(* Conventions.  An Optional value is a sequence of length at most one:    *)
(* <<>> is Python's None, <<x>> is x.  A dict that is iterated is a        *)
(* sequence of its entries in insertion order.  A float is the exact       *)
(* rational it denotes, a pair <<numerator, denominator>> in lowest terms; *)
(* a Movie's rating is stored in tenths (70 is 7.0).  A Movie is the       *)
(* record of the fields the code reads (title, year, genre, rating); the   *)
(* dataclass equality compares all fields, here the modelled ones.         *)
(***************************************************************************)
EXTENDS Integers, Sequences, FiniteSets, TLC

VARIABLES movies, users, current_user, graph, pc, out, atLogout

vars == <<movies, users, current_user, graph, pc, out, atLogout>>

(***************************************************************************)
(* Bounds of the model.                                                    *)
(***************************************************************************)
MaxEntries == 4
MaxTopN == 3
MaxCatalog == 12
MaxUsers == 3
MaxRows == 2

(***************************************************************************)
(* Program constants.                                                      *)
(***************************************************************************)
DefaultTopN == 3
TopK == 10

(***************************************************************************)
(* Arithmetic on exact rationals.                                          *)
(***************************************************************************)
RECURSIVE GCD(_, _)
GCD(a, b) == IF b = 0 THEN a ELSE GCD(b, a % b)

Rat(n, d) == LET g == GCD(n, d) IN IF g = 0 THEN <<0, 1>> ELSE <<n \div g, d \div g>>

RatAdd(x, y) == Rat(x[1] * y[2] + y[1] * x[2], x[2] * y[2])

RatMul(x, y) == Rat(x[1] * y[1], x[2] * y[2])

RatLess(x, y) == x[1] * y[2] < y[1] * x[2]

RatZero == <<0, 1>>

Min(a, b) == IF a < b THEN a ELSE b

Max(a, b) == IF a > b THEN a ELSE b

(***************************************************************************)
(* The sequences over S of length at most n.                               *)
(***************************************************************************)
RECURSIVE SeqsUpTo(_, _)
SeqsUpTo(S, n) ==
    IF n = 0 THEN {<<>>}
    ELSE LET shorter == SeqsUpTo(S, n - 1)
         IN  shorter \cup {Append(s, x) : s \in {t \in shorter : Len(t) = n - 1}, x \in S}

(***************************************************************************)
(* list[:n]                                                                *)
(***************************************************************************)
Slice(s, n) ==
    IF n >= 0 THEN SubSeq(s, 1, Min(n, Len(s)))
    ELSE SubSeq(s, 1, Max(Len(s) + n, 0))

(***************************************************************************)
(* list.sort(key=lambda x: x[1], reverse=True) and sorted(..., same): the  *)
(* sort is stable, and reverse=True keeps the incoming order of elements   *)
(* with equal keys.  Elements are pairs <<item, rational>>.                *)
(***************************************************************************)
RECURSIVE InsertDesc(_, _)
InsertDesc(sorted, x) ==
    IF sorted = <<>> THEN <<x>>
    ELSE IF RatLess(Head(sorted)[2], x[2]) THEN <<x>> \o sorted
    ELSE <<Head(sorted)>> \o InsertDesc(Tail(sorted), x)

RECURSIVE SortDescFrom(_, _)
SortDescFrom(acc, s) ==
    IF s = <<>> THEN acc ELSE SortDescFrom(InsertDesc(acc, Head(s)), Tail(s))

SortDesc(s) == SortDescFrom(<<>>, s)

(***************************************************************************)
(* The rating graph: networkx.Graph as used by build_user_movie_graph.     *)
(* nodes: the node ids in insertion order; type, genre: node attributes;   *)
(* adj: node -> set of adjacent nodes; weight: edge {u, v} -> rating.      *)
(***************************************************************************)
NoGenre == ""

EmptyGraph ==
    [nodes |-> <<>>, type |-> <<>>, genre |-> <<>>, adj |-> <<>>, weight |-> <<>>]

NodeSet(g) == {g.nodes[i] : i \in 1..Len(g.nodes)}

HasNode(g, n) == n \in NodeSet(g)

AddNode(g, n, t, gen) ==
    [g EXCEPT !.nodes = Append(g.nodes, n),
              !.type = [x \in NodeSet(g) \cup {n} |-> IF x = n THEN t ELSE g.type[x]],
              !.genre = [x \in NodeSet(g) \cup {n} |-> IF x = n THEN gen ELSE g.genre[x]],
              !.adj = [x \in NodeSet(g) \cup {n} |-> IF x = n THEN {} ELSE g.adj[x]]]

AddEdge(g, u, v, w) ==
    [g EXCEPT !.adj = [x \in NodeSet(g) |->
                          IF x = u /\ x = v THEN g.adj[x] \cup {u}
                          ELSE IF x = u THEN g.adj[x] \cup {v}
                          ELSE IF x = v THEN g.adj[x] \cup {u}
                          ELSE g.adj[x]],
              !.weight = [e \in DOMAIN g.weight \cup {{u, v}} |->
                             IF e = {u, v} THEN w ELSE g.weight[e]]]

Neighbors(g, n) == g.adj[n]

(***************************************************************************)
(* An element of the list handed to build_user_movie_graph is a dict       *)
(* (kind "dict": user, movie, rating, genre), as load_user_movie_data      *)
(* makes them, or a tuple (kind "tuple": t0, t1, t2), as load_data makes   *)
(* them.  entry["user"] on a tuple raises TypeError.                       *)
(***************************************************************************)
DictEntry(u, m, r, gen) ==
    [kind |-> "dict", user |-> u, movie |-> m, rating |-> r, genre |-> gen]

AddEntry(g, entry) ==
    LET user_id == entry.user
        movie_title == entry.movie
        g1 == IF ~HasNode(g, user_id) THEN AddNode(g, user_id, "user", NoGenre) ELSE g
        g2 == IF ~HasNode(g1, movie_title)
              THEN AddNode(g1, movie_title, "movie", entry.genre) ELSE g1
    IN  AddEdge(g2, user_id, movie_title, entry.rating)

RECURSIVE BuildFrom(_, _)
BuildFrom(g, data) ==
    IF data = <<>> THEN g ELSE BuildFrom(AddEntry(g, Head(data)), Tail(data))

build_user_movie_graph(data) ==
    IF \E i \in 1..Len(data) : data[i].kind = "tuple"
    THEN [exc |-> "TypeError", g |-> EmptyGraph]
    ELSE [exc |-> "", g |-> BuildFrom(EmptyGraph, data)]

(***************************************************************************)
(* find_similar_users(graph, target_user, top_n)                           *)
(***************************************************************************)
Similarity(g, target_user, node) ==
    LET target_movies == Neighbors(g, target_user)
        other_movies == Neighbors(g, node)
        intersection == target_movies \cap other_movies
        union == target_movies \cup other_movies
    IN  Rat(Cardinality(intersection), Cardinality(union))

IsCandidateAnyUser(g, target_user, node) == g.type[node] = "user"

IsCandidate(g, target_user, node) ==
    /\ g.type[node] = "user"
    /\ node # target_user

RECURSIVE SimilarityScores(_, _, _)
SimilarityScores(g, target_user, i) ==
    IF i = 0 THEN <<>>
    ELSE LET node == g.nodes[i]
             prev == SimilarityScores(g, target_user, i - 1)
             union == Neighbors(g, target_user) \cup Neighbors(g, node)
             similarity == Similarity(g, target_user, node)
         IN  IF ~IsCandidate(g, target_user, node) THEN prev
             ELSE IF union = {} THEN prev
             ELSE IF RatLess(RatZero, similarity) THEN Append(prev, <<node, similarity>>)
             ELSE prev

find_similar_users(g, target_user, top_n) ==
    IF ~HasNode(g, target_user) THEN <<>>
    ELSE Slice(SortDesc(SimilarityScores(g, target_user, Len(g.nodes))), top_n)

(***************************************************************************)
(* str(int) and int(str).  int accepts a decimal literal, also one with a  *)
(* leading zero, and raises ValueError on anything else.  Literals are the *)
(* numbers whose literals the bounded inputs can contain.                  *)
(***************************************************************************)
Digits == <<"0", "1", "2", "3", "4", "5", "6", "7", "8", "9">>

RECURSIVE StrOfInt(_)
StrOfInt(n) ==
    IF n < 10 THEN Digits[n + 1] ELSE StrOfInt(n \div 10) \o Digits[(n % 10) + 1]

Literals == (0..30) \cup {142, 1000} \cup (1990..2030)

Numerals ==
    [s \in {StrOfInt(i) : i \in Literals} |-> CHOOSE i \in Literals : StrOfInt(i) = s]
        @@ [s \in {"0" \o StrOfInt(i) : i \in 0..9} |->
               CHOOSE i \in 0..9 : "0" \o StrOfInt(i) = s]

IsIntLiteral(s) == s \in DOMAIN Numerals

IntOfStr(s) == Numerals[s]

IsDigit(s) == s \in DOMAIN Numerals

Floats == [s \in {"7.0", "8.0", "9.0", "9.3"} |->
              IF s = "7.0" THEN 70 ELSE IF s = "8.0" THEN 80 ELSE IF s = "9.0" THEN 90 ELSE 93]

IsFloatLiteral(s) == s \in DOMAIN Floats \/ IsIntLiteral(s)

FloatOfStr(s) == IF s \in DOMAIN Floats THEN Floats[s] ELSE 10 * IntOfStr(s)

StripMin(s) == IF s = "142 min" THEN "142" ELSE s

Lower(s) == IF s = "NEW" \/ s = "New" THEN "new" ELSE s

(***************************************************************************)
(* Movie and the movies the bounded inputs are made of.                    *)
(***************************************************************************)
Movie(title, year, genre, rating) ==
    [title |-> title, year |-> year, genre |-> genre, rating |-> rating]

Titles == <<"A", "B", "Inception", "Matrix", "E", "F", "G", "H", "I", "J", "K", "L", "M", "N">>

GenMovie(i) ==
    Movie(Titles[i], 2000 + i,
          IF i % 2 = 1 THEN "Drama" ELSE "Comedy",
          IF i = 1 THEN 70 ELSE IF i = 3 THEN 90 ELSE 60 + 10 * (i % 3))

GenCatalog(n) == [i \in 1..n |-> GenMovie(i)]

(***************************************************************************)
(* dict and set operations of the engine.  movies is the dict title ->     *)
(* Movie as the sequence of its values in insertion order; users is the    *)
(* dict user id -> watched set (the User's only other field is its key).   *)
(***************************************************************************)
TitleIn(catalog, title) == \E i \in 1..Len(catalog) : catalog[i].title = title

MovieAt(catalog, title) ==
    catalog[CHOOSE i \in 1..Len(catalog) : catalog[i].title = title]

CatalogPut(catalog, m) ==
    IF TitleIn(catalog, m.title)
    THEN [i \in 1..Len(catalog) |-> IF catalog[i].title = m.title THEN m ELSE catalog[i]]
    ELSE Append(catalog, m)

SetAddToggle(set, m) == IF m \in set THEN set \ {m} ELSE set \cup {m}

SetAdd(set, m) == IF m \in set THEN set ELSE set \cup {m}

SetToSeq(set, ord) == SelectSeq(ord, LAMBDA m : m \in set)

Orders(S) ==
    {ord \in [1..Cardinality(S) -> S] : \A i, j \in 1..Cardinality(S) : i # j => ord[i] # ord[j]}

(***************************************************************************)
(* movie_scores: a dict Movie -> score, as the sequence of its items in    *)
(* insertion order.                                                        *)
(***************************************************************************)
ScoreAdd(scores, m, x) ==
    IF \E i \in 1..Len(scores) : scores[i][1] = m
    THEN [i \in 1..Len(scores) |->
             IF scores[i][1] = m THEN <<m, RatAdd(scores[i][2], x)>> ELSE scores[i]]
    ELSE Append(scores, <<m, RatAdd(RatZero, x)>>)

RatingOf(m) == Rat(m.rating, 10)

(***************************************************************************)
(* get_recommendations: the collaborative pass.  A set is iterated in an   *)
(* order the hash of its elements decides; ord is that order.              *)
(***************************************************************************)
NotWatchedAlways(dir, cu, m) == TRUE

NotWatched(dir, cu, m) == m \notin dir[cu]

RECURSIVE AddMovies(_, _, _, _, _)
AddMovies(scores, watched, similarity, dir, cu) ==
    IF watched = <<>> THEN scores
    ELSE LET movie == Head(watched)
         IN  AddMovies(IF NotWatched(dir, cu, movie)
                       THEN ScoreAdd(scores, movie, RatMul(similarity, RatingOf(movie)))
                       ELSE scores,
                       Tail(watched), similarity, dir, cu)

RECURSIVE Collaborative(_, _, _, _, _)
Collaborative(acc, similar_users, dir, cu, ord) ==
    IF similar_users = <<>> \/ acc.exc # "" THEN acc
    ELSE LET similar_user_id == Head(similar_users)[1]
             similarity == Head(similar_users)[2]
         IN  IF ~IsIntLiteral(similar_user_id)
             THEN [exc |-> "ValueError", scores |-> acc.scores]
             ELSE IF IntOfStr(similar_user_id) \notin DOMAIN dir
             THEN [exc |-> "KeyError", scores |-> acc.scores]
             ELSE Collaborative(
                      [exc |-> "",
                       scores |-> AddMovies(acc.scores,
                                            SetToSeq(dir[IntOfStr(similar_user_id)], ord),
                                            similarity, dir, cu)],
                      Tail(similar_users), dir, cu, ord)

(***************************************************************************)
(* get_recommendations: the content pass.                                  *)
(***************************************************************************)
GenreBonusFlat(genre, user_genres) == <<1, 1>>

GenreBonus(genre, user_genres) == IF genre \in user_genres THEN <<1, 1>> ELSE <<3, 10>>

RECURSIVE Content(_, _, _, _, _)
Content(scores, catalog, i, dir, cu) ==
    IF i > Len(catalog) THEN scores
    ELSE LET movie == catalog[i]
             user_genres == {m.genre : m \in dir[cu]}
         IN  Content(IF NotWatched(dir, cu, movie)
                     THEN ScoreAdd(scores, movie,
                                   RatMul(RatingOf(movie), GenreBonus(movie.genre, user_genres)))
                     ELSE scores,
                     catalog, i + 1, dir, cu)

RankAll(scores) == SortDesc(scores)

Rank(scores) == Slice(SortDesc(scores), TopK)

(***************************************************************************)
(* get_recommendations(self.current_user): what it raises or returns.      *)
(* With graph None, find_similar_users raises TypeError at                 *)
(* `target_user not in graph`.                                             *)
(***************************************************************************)
NoCurrentUserEmptyList == [sig |-> "return", list |-> <<>>]

NoCurrentUser == [sig |-> "RuntimeError", list |-> <<>>]

get_recommendations(catalog, dir, cur, gr, ord) ==
    IF cur = <<>> THEN NoCurrentUser
    ELSE IF gr = <<>> THEN [sig |-> "TypeError", list |-> <<>>]
    ELSE LET current_id == cur[1]
             similar_users == find_similar_users(gr[1], StrOfInt(current_id), DefaultTopN)
             collab == Collaborative([exc |-> "", scores |-> <<>>],
                                     similar_users, dir, current_id, ord)
         IN  IF collab.exc # "" THEN [sig |-> collab.exc, list |-> <<>>]
             ELSE [sig |-> "return",
                   list |-> Rank(Content(collab.scores, catalog, 1, dir, current_id))]

AllWatched(dir) == UNION {dir[id] : id \in DOMAIN dir}

(***************************************************************************)
(* load_data.  A row of the movies file is the record of its column count  *)
(* and of the columns the code reads; a row of the ratings file likewise.  *)
(* ValueError is caught inside load_data, which then returns; TypeError    *)
(* (build_user_movie_graph on the tuples of `ratings`) is not.             *)
(***************************************************************************)
MovieRow(ncols, title, year, length, genre, rating, votes) ==
    [ncols |-> ncols, title |-> title, year |-> year, length |-> length,
     genre |-> genre, rating |-> rating, votes |-> votes]

RatingRow(ncols, user, title, rating, genre) ==
    [ncols |-> ncols, user |-> user, title |-> title, rating |-> rating, genre |-> genre]

TupleEntry(user_id, movie_title, rating) ==
    [kind |-> "tuple", t0 |-> user_id, t1 |-> movie_title, t2 |-> rating]

RECURSIVE LoadMovies(_, _)
LoadMovies(acc, rows) ==
    IF rows = <<>> \/ acc.exc # "" THEN acc
    ELSE LET row == Head(rows)
         IN  IF row.ncols # 16 THEN [acc EXCEPT !.exc = "ValueError"]
             ELSE IF ~IsDigit(row.year)
             THEN LoadMovies([acc EXCEPT !.skipped = Append(acc.skipped, row.title)],
                             Tail(rows))
             ELSE IF \/ ~IsIntLiteral(StripMin(row.length))
                     \/ ~IsFloatLiteral(row.rating)
                     \/ ~IsIntLiteral(row.votes)
             THEN [acc EXCEPT !.exc = "ValueError"]
             ELSE LoadMovies(
                      [acc EXCEPT !.catalog =
                          CatalogPut(acc.catalog,
                                     Movie(row.title, IntOfStr(row.year), row.genre,
                                           FloatOfStr(row.rating)))],
                      Tail(rows))

RECURSIVE LoadRatings(_, _, _)
LoadRatings(acc, rows, catalog) ==
    IF rows = <<>> \/ acc.exc # "" THEN acc
    ELSE LET row == Head(rows)
         IN  IF row.ncols # 4 THEN [acc EXCEPT !.exc = "ValueError"]
             ELSE IF ~IsIntLiteral(row.user) \/ ~IsFloatLiteral(row.rating)
             THEN [acc EXCEPT !.exc = "ValueError"]
             ELSE LET user_id == IntOfStr(row.user)
                      dir1 == IF user_id \notin DOMAIN acc.dir
                              THEN acc.dir @@ (user_id :> {}) ELSE acc.dir
                      dir2 == IF TitleIn(catalog, row.title)
                              THEN [dir1 EXCEPT ![user_id] =
                                       SetAdd(dir1[user_id], MovieAt(catalog, row.title))]
                              ELSE dir1
                  IN  LoadRatings(
                          [acc EXCEPT !.dir = dir2,
                                      !.ratings = Append(acc.ratings,
                                          TupleEntry(user_id, row.title,
                                                     FloatOfStr(row.rating)))],
                          Tail(rows), catalog)

load_data(catalog, dir, gr, movie_rows, rating_rows) ==
    LET m == LoadMovies([exc |-> "", catalog |-> catalog, skipped |-> <<>>], movie_rows)
        r == LoadRatings([exc |-> "", dir |-> dir, ratings |-> <<>>], rating_rows, m.catalog)
        b == build_user_movie_graph(r.ratings)
    IN  IF m.exc # ""
        THEN [sig |-> "Input error", movies |-> m.catalog, users |-> dir, graph |-> gr,
              skipped |-> m.skipped]
        ELSE IF r.exc # ""
        THEN [sig |-> "Input error", movies |-> m.catalog, users |-> r.dir, graph |-> gr,
              skipped |-> m.skipped]
        ELSE IF b.exc # ""
        THEN [sig |-> b.exc, movies |-> m.catalog, users |-> r.dir, graph |-> gr,
              skipped |-> m.skipped]
        ELSE [sig |-> "return", movies |-> m.catalog, users |-> r.dir, graph |-> <<b.g>>,
              skipped |-> m.skipped]

(***************************************************************************)
(* load_user_movie_data: the rows of the ratings file as dicts, the user   *)
(* id kept as the string it is.  ValueError (float of the rating) is       *)
(* caught around the whole loop, so the rows read so far are returned and  *)
(* the rest is dropped; row[3] of a row with fewer than four columns       *)
(* raises IndexError, which nothing catches.                               *)
(***************************************************************************)
RECURSIVE LoadEntries(_, _)
LoadEntries(acc, rows) ==
    IF rows = <<>> \/ acc.exc # "" THEN acc
    ELSE LET row == Head(rows)
         IN  IF row.ncols < 3 THEN [acc EXCEPT !.exc = "IndexError"]
             ELSE IF ~IsFloatLiteral(row.rating) THEN [acc EXCEPT !.exc = "ValueError"]
             ELSE IF row.ncols < 4 THEN [acc EXCEPT !.exc = "IndexError"]
             ELSE LoadEntries(
                      [acc EXCEPT !.entries =
                          Append(acc.entries,
                                 DictEntry(row.user, row.title, FloatOfStr(row.rating),
                                           row.genre))],
                      Tail(rows))

load_user_movie_data(rows) ==
    LET r == LoadEntries([exc |-> "", entries |-> <<>>], rows)
    IN  [sig |-> IF r.exc = "" THEN "return"
                 ELSE IF r.exc = "ValueError" THEN "Failed to load data"
                 ELSE r.exc,
         entries |-> r.entries]

(***************************************************************************)
(* Bounded inputs of the engine: the constructor's arguments, the rows of  *)
(* the two files, what the user types.                                     *)
(***************************************************************************)
InitCatalogs == {GenCatalog(n) : n \in 0..2}

EmptyDir == <<>>

InitDirectories ==
    {EmptyDir,
     (1 :> {}),
     (1 :> {GenMovie(3)}),
     (1 :> {GenMovie(3)}) @@ (2 :> {GenMovie(1)})}

MovieRows ==
    {MovieRow(16, "A", "2001", "142 min", "Drama", "7.0", "1000"),
     MovieRow(16, "B", "2002", "142 min", "Comedy", "8.0", "1000"),
     MovieRow(16, "B", "2002", "142 min", "Comedy", "9.3", "1000"),
     MovieRow(16, "B", "PG", "142 min", "Comedy", "8.0", "1000"),
     MovieRow(16, "B", "2002", "142 min", "Comedy", "N/A", "1000"),
     MovieRow(15, "B", "2002", "142 min", "Comedy", "8.0", "1000")}

RatingRows ==
    {RatingRow(4, "1", "A", "9.0", "Drama"),
     RatingRow(4, "2", "Zzz", "8.0", "Comedy"),
     RatingRow(4, "x", "A", "9.0", "Drama"),
     RatingRow(4, "1", "A", "n/a", "Drama"),
     RatingRow(3, "1", "A", "9.0", "")}

LoginInputs == {"new", "NEW", "abc", "01", "7"} \cup {StrOfInt(i) : i \in 1..MaxUsers}

TitleInputs == {"A", "B", "Inception", "Unknown Title"}

Result(op, arg, sig, list) == [op |-> op, arg |-> arg, n |-> 0, sig |-> sig, list |-> list]

(***************************************************************************)
(* The engine and its session.  pc is the position of the program:         *)
(* "constructed" after __init__, "loaded" after load_data has returned,    *)
(* "login" and "menu" in the two loops of interactive_session, "exited"    *)
(* after it has returned, "crashed" after an exception nothing catches.    *)
(* out is what the last operation printed, returned or raised.  atLogout   *)
(* is a history variable: user id -> the watched set the user had when it  *)
(* last left the menu.                                                     *)
(*                                                                         *)
(* The program constructs the engine with no active user, calls load_data  *)
(* once and then interactive_session (lines 273-277); a session that has   *)
(* returned can be started again.  The constructor's Catalog and           *)
(* UserDirectory are drawn from bounded sets.  An exception that leaves    *)
(* load_data or interactive_session ends the program.                      *)
(***************************************************************************)
Init ==
    /\ movies \in InitCatalogs
    /\ users \in InitDirectories
    /\ current_user = <<>>
    /\ graph = <<>>
    /\ pc = "constructed"
    /\ out = [op |-> "", arg |-> "", n |-> 0, sig |-> "", list |-> <<>>]
    /\ atLogout = <<>>

LoadData ==
    /\ pc = "constructed"
    /\ \E movie_rows \in SeqsUpTo(MovieRows, MaxRows),
          rating_rows \in SeqsUpTo(RatingRows, MaxRows) :
           LET r == load_data(movies, users, graph, movie_rows, rating_rows)
           IN  /\ movies' = r.movies
               /\ users' = r.users
               /\ graph' = r.graph
               /\ pc' = IF r.sig = "TypeError" THEN "crashed" ELSE "loaded"
               /\ out' = Result("load_data", "", r.sig,
                                <<movie_rows, rating_rows, r.skipped>>)
    /\ UNCHANGED <<current_user, atLogout>>

(***************************************************************************)
(* load_user_movie_data called on the rows of a ratings file; pc is        *)
(* "returned" after it.                                                    *)
(***************************************************************************)
CallLoadUserMovieData ==
    /\ pc = "constructed"
    /\ \E rows \in SeqsUpTo(RatingRows, MaxRows) :
           LET r == load_user_movie_data(rows)
           IN  /\ out' = Result("load_user_movie_data", "", r.sig, <<rows, r.entries>>)
               /\ pc' = IF r.sig = "IndexError" THEN "crashed" ELSE "returned"
    /\ UNCHANGED <<movies, users, current_user, graph, atLogout>>

StartSession ==
    /\ pc \in {"loaded", "exited"}
    /\ pc' = "login"
    /\ out' = Result("interactive_session", "", "", <<>>)
    /\ UNCHANGED <<movies, users, current_user, graph, atLogout>>

(***************************************************************************)
(* One pass of the login loop on what the user typed (stripped).           *)
(* max() of no keys raises ValueError, outside the try.                    *)
(***************************************************************************)
MaxKey(dir) == CHOOSE k \in DOMAIN dir : \A j \in DOMAIN dir : j <= k

LoginOutcome(sig, dir, cur, logged_in) ==
    [sig |-> sig, users |-> dir, current_user |-> cur, logged_in |-> logged_in]

login_autocreate(dir, cur, user_input) ==
    IF Lower(user_input) = "new"
    THEN IF DOMAIN dir = {} THEN LoginOutcome("ValueError", dir, cur, FALSE)
         ELSE LET new_id == MaxKey(dir) + 1
              IN  LoginOutcome("created", dir @@ (new_id :> {}), <<new_id>>, TRUE)
    ELSE IF ~IsIntLiteral(user_input) THEN LoginOutcome("not numeric", dir, cur, FALSE)
    ELSE LET user_id == IntOfStr(user_input)
         IN  IF user_id \in DOMAIN dir THEN LoginOutcome("ok", dir, <<user_id>>, TRUE)
             ELSE LoginOutcome("ok", dir @@ (user_id :> {}), <<user_id>>, TRUE)

login(dir, cur, user_input) ==
    IF Lower(user_input) = "new"
    THEN IF DOMAIN dir = {} THEN LoginOutcome("ValueError", dir, cur, FALSE)
         ELSE LET new_id == MaxKey(dir) + 1
              IN  LoginOutcome("created", dir @@ (new_id :> {}), <<new_id>>, TRUE)
    ELSE IF ~IsIntLiteral(user_input) THEN LoginOutcome("not numeric", dir, cur, FALSE)
    ELSE LET user_id == IntOfStr(user_input)
         IN  IF user_id \in DOMAIN dir THEN LoginOutcome("ok", dir, <<user_id>>, TRUE)
             ELSE LoginOutcome("user not found", dir, cur, FALSE)

Login ==
    /\ pc = "login"
    /\ \E user_input \in LoginInputs :
           LET r == login(users, current_user, user_input)
           IN  /\ Cardinality(DOMAIN r.users) <= MaxUsers
               /\ users' = r.users
               /\ current_user' = r.current_user
               /\ pc' = IF r.sig = "ValueError" THEN "crashed"
                        ELSE IF r.logged_in THEN "menu" ELSE "login"
               /\ out' = Result("login", user_input, r.sig, <<>>)
    /\ UNCHANGED <<movies, graph, atLogout>>

(***************************************************************************)
(* Menu choice 1: only RuntimeError is caught; any other exception ends    *)
(* the session and the program.                                            *)
(***************************************************************************)
RequestRecommendations ==
    /\ pc = "menu"
    /\ \E ord \in Orders(AllWatched(users)) :
           LET r == get_recommendations(movies, users, current_user, graph, ord)
           IN  /\ out' = Result("get_recommendations", "", r.sig, r.list)
               /\ pc' = IF r.sig \in {"return", "RuntimeError"} THEN "menu" ELSE "crashed"
    /\ UNCHANGED <<movies, users, current_user, graph, atLogout>>

(***************************************************************************)
(* get_recommendations called on the engine outside the menu loop.         *)
(***************************************************************************)
CallGetRecommendations ==
    /\ pc \in {"constructed", "loaded", "exited"}
    /\ \E ord \in Orders(AllWatched(users)) :
           LET r == get_recommendations(movies, users, current_user, graph, ord)
           IN  out' = Result("get_recommendations", "", r.sig, r.list)
    /\ UNCHANGED <<movies, users, current_user, graph, pc, atLogout>>

(***************************************************************************)
(* Menu choice 2 on the title the user typed (stripped).                   *)
(***************************************************************************)
record_watched_stub(catalog, dir, cur, title) ==
    IF TitleIn(catalog, title)
    THEN [sig |-> "added",
          users |-> [dir EXCEPT ![cur[1]] = SetAdd(dir[cur[1]], MovieAt(catalog, title))]]
    ELSE [sig |-> "added",
          users |-> [dir EXCEPT ![cur[1]] = SetAdd(dir[cur[1]], Movie(title, 0, "", 0))]]

record_watched(catalog, dir, cur, title) ==
    IF TitleIn(catalog, title)
    THEN [sig |-> "added",
          users |-> [dir EXCEPT ![cur[1]] = SetAdd(dir[cur[1]], MovieAt(catalog, title))]]
    ELSE [sig |-> "movie not found", users |-> dir]

RecordWatched ==
    /\ pc = "menu"
    /\ \E title \in TitleInputs :
           LET r == record_watched(movies, users, current_user, title)
           IN  /\ users' = r.users
               /\ out' = Result("record_watched", title, r.sig, <<>>)
    /\ UNCHANGED <<movies, current_user, graph, pc, atLogout>>

(***************************************************************************)
(* Menu choice 3.                                                          *)
(***************************************************************************)
logout_keep(cur) == cur

logout(cur) == <<>>

Logout ==
    /\ pc = "menu"
    /\ current_user' = logout(current_user)
    /\ pc' = "exited"
    /\ out' = Result("logout", "", "ok", <<>>)
    /\ atLogout' = [id \in DOMAIN atLogout \cup {current_user[1]} |->
                       IF id = current_user[1] THEN users[id] ELSE atLogout[id]]
    /\ UNCHANGED <<movies, users, graph>>

InvalidChoice ==
    /\ pc = "menu"
    /\ out' = Result("menu", "", "invalid choice", <<>>)
    /\ UNCHANGED <<movies, users, current_user, graph, pc, atLogout>>

Next ==
    \/ LoadData
    \/ CallLoadUserMovieData
    \/ StartSession
    \/ Login
    \/ RequestRecommendations
    \/ CallGetRecommendations
    \/ RecordWatched
    \/ Logout
    \/ InvalidChoice

Spec == Init /\ [][Next]_vars

(***************************************************************************)
(* Bounded inputs of the similarity search.  Two entries have a movie      *)
(* title that is also a user id.                                           *)
(***************************************************************************)
GraphUsers == {"1", "2", "3"}

GraphMovies == {"Inception", "Matrix"}

GraphRating(m) == IF m = "Inception" THEN 90 ELSE 80

GraphEntries ==
    {DictEntry(u, m, GraphRating(m), "Sci-Fi") : u \in GraphUsers, m \in GraphMovies}
        \cup {DictEntry("3", "3", 70, "Drama"), DictEntry("2", "1", 70, "Drama")}

Targets == GraphUsers \cup {"Inception", "9"}

(***************************************************************************)
(* The two functions on bounded inputs: every graph that                   *)
(* build_user_movie_graph makes of at most MaxEntries entries, a Catalog,  *)
(* a UserDirectory that holds for every user id of the graph the Catalog   *)
(* movies it rated (as load_data fills it) and a user 9 without ratings,   *)
(* or that lacks the users of the graph, and an active user.  pc is "fn"   *)
(* before the call and "returned" after it.                                *)
(***************************************************************************)
DirectoryOf(g, catalog) ==
    LET ids == {IntOfStr(u) : u \in {n \in NodeSet(g) : g.type[n] = "user" /\ IsIntLiteral(n)}}
    IN  [id \in ids \cup {9} |->
            IF id = 9 THEN {}
            ELSE {MovieAt(catalog, t) :
                     t \in {x \in g.adj[StrOfInt(id)] : TitleIn(catalog, x)}}]

FnCatalogs ==
    {GenCatalog(0), <<GenMovie(3), GenMovie(1), GenMovie(2)>>,
     <<GenMovie(4), GenMovie(3), GenMovie(2)>>, GenCatalog(MaxCatalog)}

InitFn ==
    /\ \E data \in SeqsUpTo(GraphEntries, MaxEntries) :
           graph = <<build_user_movie_graph(data).g>>
    /\ movies \in FnCatalogs
    /\ users \in {DirectoryOf(graph[1], movies), (1 :> {}) @@ (9 :> {})}
    /\ current_user \in {<<>>} \cup {<<id>> : id \in DOMAIN users \cap {1, 9}}
    /\ pc = "fn"
    /\ out = [op |-> "", arg |-> "", n |-> 0, sig |-> "", list |-> <<>>]
    /\ atLogout = <<>>

CallFindSimilarUsers ==
    /\ pc = "fn"
    /\ \E target_user \in Targets, top_n \in 0..MaxTopN :
           out' = [op |-> "find_similar_users", arg |-> target_user, n |-> top_n,
                   sig |-> "return",
                   list |-> find_similar_users(graph[1], target_user, top_n)]
    /\ pc' = "returned"
    /\ UNCHANGED <<movies, users, current_user, graph, atLogout>>

CallGetRecommendationsFn ==
    /\ pc = "fn"
    /\ \E ord \in Orders(AllWatched(users)) :
           LET r == get_recommendations(movies, users, current_user, graph, ord)
           IN  out' = Result("get_recommendations", "", r.sig, r.list)
    /\ pc' = "returned"
    /\ UNCHANGED <<movies, users, current_user, graph, atLogout>>

NextFn ==
    \/ CallFindSimilarUsers
    \/ CallGetRecommendationsFn

SpecFn == InitFn /\ [][NextFn]_vars

(***************************************************************************)
(* The similarity of the claims, from the adjacency of the graph alone,    *)
(* and the graph of the scenario: users 1 and 2 rated "Inception", 2 also  *)
(* rated "Matrix".                                                         *)
(***************************************************************************)
Common(g, t, u) == Cardinality(g.adj[t] \cap g.adj[u])

Either(g, t, u) == Cardinality(g.adj[t] \cup g.adj[u])

Qualifying(g, t) ==
    {u \in NodeSet(g) : g.type[u] = "user" /\ u # t /\ Common(g, t, u) > 0}

ScenarioGraph ==
    build_user_movie_graph(<<DictEntry("1", "Inception", 90, "Sci-Fi"),
                             DictEntry("2", "Inception", 90, "Sci-Fi"),
                             DictEntry("2", "Matrix", 80, "Sci-Fi")>>).g

(***************************************************************************)
(* C9.  find_similar_users returns exactly the (at most top_n) highest     *)
(* ranked pairs (u, |N(target) /\ N(u)| / |N(target) \/ N(u)|) over the    *)
(* user nodes u other than the target whose similarity is strictly         *)
(* positive, in non-increasing similarity order; the target and users of   *)
(* similarity 0 never appear; in the scenario of the specification the     *)
(* result for "1" with top_n = 3 is [("2", 0.5)].  top_n is a count, 0 or  *)
(* more.                                                                   *)
(***************************************************************************)
C9_SimilarUsersExact ==
    (out.op = "find_similar_users" /\ HasNode(graph[1], out.arg)) =>
        LET g == graph[1]
            t == out.arg
            r == out.list
            Q == Qualifying(g, t)
            Named == {r[i][1] : i \in 1..Len(r)}
        IN  /\ Len(r) = Min(out.n, Cardinality(Q))
            /\ \A i \in 1..Len(r) :
                   /\ r[i][1] \in Q
                   /\ r[i][2][2] > 0
                   /\ r[i][2][1] * Either(g, t, r[i][1]) = Common(g, t, r[i][1]) * r[i][2][2]
            /\ \A i, j \in 1..Len(r) :
                   i < j => /\ r[i][1] # r[j][1]
                            /\ r[i][2][1] * r[j][2][2] >= r[j][2][1] * r[i][2][2]
            /\ \A u \in Q \ Named : \A i \in 1..Len(r) :
                   r[i][2][1] * Either(g, t, u) >= Common(g, t, u) * r[i][2][2]
            /\ (g = ScenarioGraph /\ t = "1" /\ out.n = 3) => r = << <<"2", <<1, 2>>>> >>

C9_Witness ==
    /\ out.op = "find_similar_users"
    /\ HasNode(graph[1], out.arg)
    /\ out.n = 1
    /\ Len(out.list) = 1
    /\ \E u \in Qualifying(graph[1], out.arg) :
           /\ u # out.list[1][1]
           /\ \E i, j \in 1..Len(graph[1].nodes) :
                  i < j /\ graph[1].nodes[i] = u /\ graph[1].nodes[j] = out.list[1][1]
           /\ out.list[1][2][1] * Either(graph[1], out.arg, u)
                  > Common(graph[1], out.arg, u) * out.list[1][2][2]

(***************************************************************************)
(* C1.  The list get_recommendations returns never contains a movie that   *)
(* is in the active user's watched set at the time of the request.         *)
(***************************************************************************)
C1_NoWatchedRecommended ==
    (out.op = "get_recommendations" /\ out.sig = "return") =>
        \A i \in 1..Len(out.list) : out.list[i][1] \notin users[current_user[1]]

C1_Witness ==
    /\ pc = "menu"
    /\ out.op = "get_recommendations"
    /\ out.sig = "return"
    /\ Len(out.list) > 0
    /\ \E m \in users[current_user[1]] : TitleIn(movies, m.title) /\ MovieAt(movies, m.title) = m

(***************************************************************************)
(* C2.  With no active user, get_recommendations raises the error that     *)
(* names that condition (RuntimeError "No current user set") and that no   *)
(* other condition raises, returns no list, and leaves the Catalog, the    *)
(* UserDirectory, the graph and the session where they were.               *)
(***************************************************************************)
C2_NoActiveUserSignalled ==
    [][(out'.op = "get_recommendations" /\ out' # out) =>
          /\ (current_user = <<>>) <=> (out'.sig = "RuntimeError")
          /\ current_user = <<>> =>
                /\ out'.list = <<>>
                /\ out'.sig # "return"
                /\ UNCHANGED <<movies, users, current_user, graph, pc>>]_vars

C2_Witness ==
    /\ out.op = "get_recommendations"
    /\ out.sig = "RuntimeError"
    /\ current_user = <<>>
    /\ pc = "exited"
    /\ Len(movies) > 0
    /\ graph # <<>>

(***************************************************************************)
(* C3.  The list get_recommendations returns has at most 10 elements and   *)
(* its scores are in non-increasing order.                                 *)
(***************************************************************************)
C3_TopTenDescending ==
    (out.op = "get_recommendations" /\ out.sig = "return") =>
        /\ Len(out.list) <= 10
        /\ \A i, j \in 1..Len(out.list) :
               i < j => out.list[i][2][1] * out.list[j][2][2]
                           >= out.list[j][2][1] * out.list[i][2][2]

C3_Witness ==
    /\ out.op = "get_recommendations"
    /\ out.sig = "return"
    /\ Len(out.list) = 10
    /\ Len(movies) - Cardinality(users[current_user[1]]) > 10
    /\ out.list[1][2] # out.list[10][2]
    /\ \E i \in 1..Len(out.list) : out.list[i][2] # Rat(3 * out.list[i][1].rating, 100)
                                   /\ out.list[i][2] # Rat(out.list[i][1].rating, 10)

(***************************************************************************)
(* C4.  login("new") allocates the id one greater than the greatest id of  *)
(* the UserDirectory, or 0 if the UserDirectory is empty, adds a User with *)
(* that id and an empty watched set and makes it the active user.          *)
(***************************************************************************)
C4_NewUserId ==
    [][(pc = "login" /\ out'.op = "login" /\ Lower(out'.arg) = "new") =>
          LET new_id == IF DOMAIN users = {} THEN 0 ELSE MaxKey(users) + 1
          IN  /\ users' = users @@ (new_id :> {})
              /\ current_user' = <<new_id>>
              /\ pc' = "menu"]_vars

(***************************************************************************)
(* C5.  login with a user id that is not in the UserDirectory leaves the   *)
(* session logged out with no active user, prints "User not found", leaves *)
(* the UserDirectory unchanged and stays in the login loop.                *)
(***************************************************************************)
C5_UnknownUserRejected ==
    [][(/\ pc = "login"
        /\ out'.op = "login"
        /\ IsIntLiteral(out'.arg)
        /\ IntOfStr(out'.arg) \notin DOMAIN users) =>
          /\ out'.sig = "user not found"
          /\ pc' = "login"
          /\ current_user' = <<>>
          /\ UNCHANGED <<users, movies, graph>>]_vars

C5_Witness ==
    /\ pc = "login"
    /\ out.op = "login"
    /\ out.sig = "user not found"
    /\ users # EmptyDir
    /\ current_user = <<>>

(***************************************************************************)
(* C6.  In the menu, record_watched with a title that is not a Catalog key *)
(* prints "Movie not found" and leaves the active user's watched set, the  *)
(* Catalog, the UserDirectory and the logged-in state unchanged.           *)
(***************************************************************************)
C6_UnknownTitleRejected ==
    [][(pc = "menu" /\ out'.op = "record_watched" /\ ~TitleIn(movies, out'.arg)) =>
          /\ out'.sig = "movie not found"
          /\ UNCHANGED <<users, movies, current_user, graph, pc>>]_vars

C6_Witness ==
    /\ pc = "menu"
    /\ out.op = "record_watched"
    /\ out.arg = "Unknown Title"
    /\ out.sig = "movie not found"
    /\ users[current_user[1]] # {}
    /\ Len(movies) > 0

AlreadyWatched(title) ==
    /\ TitleIn(movies, title)
    /\ MovieAt(movies, title) \in users[current_user[1]]

(***************************************************************************)
(* C7.  record_watched is idempotent: recording a known title whose movie  *)
(* the active user has already watched, in particular recording the same   *)
(* title a second time, changes neither the watched set nor anything that  *)
(* get_recommendations reads.                                              *)
(***************************************************************************)
C7_RecordWatchedIdempotent ==
    [][(/\ pc = "menu"
        /\ out'.op = "record_watched"
        /\ \/ AlreadyWatched(out'.arg)
           \/ out.op = "record_watched" /\ out.sig = "added" /\ out'.arg = out.arg) =>
          /\ users' = users
          /\ \A ord \in Orders(AllWatched(users)) :
                get_recommendations(movies', users', current_user', graph', ord)
                    = get_recommendations(movies, users, current_user, graph, ord)]_vars

C7_Witness ==
    /\ pc = "menu"
    /\ out.op = "record_watched"
    /\ out.sig = "added"
    /\ AlreadyWatched(out.arg)
    /\ Cardinality(users[current_user[1]]) > 1

(***************************************************************************)
(* C8.  Leaving the menu clears the active user and ends the session,      *)
(* while the User stays in the UserDirectory with the watched set it had;  *)
(* as long as it is not the active user it keeps that set, and a later     *)
(* login with its id makes that same set the active one.                   *)
(***************************************************************************)
C8_LogoutKeepsUser ==
    /\ out.op = "logout" => current_user = <<>> /\ pc = "exited"
    /\ \A id \in DOMAIN atLogout :
           /\ id \in DOMAIN users
           /\ (current_user # <<id>> \/ out.op = "login") => users[id] = atLogout[id]

C8_Witness ==
    /\ pc = "menu"
    /\ out.op = "login"
    /\ out.sig = "ok"
    /\ current_user[1] \in DOMAIN atLogout
    /\ users[current_user[1]] # {}
    /\ \E m \in users[current_user[1]] : TitleIn(movies, m.title)

(***************************************************************************)
(* C10.  Lookup misses are empty results, not errors: find_similar_users   *)
(* returns the empty list for a target that is not in the graph, and       *)
(* get_recommendations for an active user returns a list.                  *)
(***************************************************************************)
C10_LookupMissesAreEmpty ==
    /\ (out.op = "find_similar_users" /\ ~HasNode(graph[1], out.arg)) =>
           out.sig = "return" /\ out.list = <<>>
    /\ (out.op = "get_recommendations" /\ current_user # <<>>) => out.sig = "return"

(***************************************************************************)
(* C11.  In a graph that build_user_movie_graph has built, every edge      *)
(* joins a node tagged user and a node tagged movie: no edge joins two     *)
(* users or two movies and no node is adjacent to itself, also when a user *)
(* id and a movie title are the same string.                               *)
(***************************************************************************)
C11_Bipartite ==
    (pc = "fn" /\ graph # <<>>) =>
        \A u \in NodeSet(graph[1]) : \A v \in graph[1].adj[u] :
            /\ u # v
            /\ {graph[1].type[u], graph[1].type[v]} = {"user", "movie"}

(***************************************************************************)
(* Rows as the claims speak of them: a row has the column count of its     *)
(* file, and its numeric fields are numeric.                               *)
(***************************************************************************)
MovieColumnsOK(row) == row.ncols = 16

MovieNumbersOK(row) ==
    /\ IsDigit(row.year)
    /\ IsIntLiteral(StripMin(row.length))
    /\ IsFloatLiteral(row.rating)
    /\ IsIntLiteral(row.votes)

RatingColumnsOK(row) == row.ncols = 4

RatingNumbersOK(row) == IsIntLiteral(row.user) /\ IsFloatLiteral(row.rating)

Elements(s) == {s[i] : i \in 1..Len(s)}

(***************************************************************************)
(* C12.  When loading, a row with a malformed numeric field is skipped and *)
(* reported and every well-formed row before and after it is loaded; the   *)
(* load is abandoned only for a column-count violation.  For load_data:    *)
(* if every row has its column count, the load is not abandoned, every     *)
(* well-formed movie row has its title in the Catalog, every malformed one *)
(* is reported, and every well-formed rating row has its user in the       *)
(* UserDirectory.  For load_user_movie_data: if every row has four         *)
(* columns, every well-formed row has its entry in the result.             *)
(***************************************************************************)
C12_MalformedRowsSkipped ==
    /\ (/\ out.op = "load_data"
        /\ \A row \in Elements(out.list[1]) : MovieColumnsOK(row)
        /\ \A row \in Elements(out.list[2]) : RatingColumnsOK(row)) =>
           /\ out.sig = "return"
           /\ \A row \in Elements(out.list[1]) :
                  IF MovieNumbersOK(row) THEN TitleIn(movies, row.title)
                  ELSE row.title \in Elements(out.list[3])
           /\ \A row \in Elements(out.list[2]) :
                  RatingNumbersOK(row) => IntOfStr(row.user) \in DOMAIN users
    /\ (/\ out.op = "load_user_movie_data"
        /\ \A row \in Elements(out.list[1]) : RatingColumnsOK(row)) =>
           \A row \in Elements(out.list[1]) :
               IsFloatLiteral(row.rating) =>
                   \E e \in Elements(out.list[2]) : e.user = row.user /\ e.movie = row.title

(***************************************************************************)
(* The score the claims give a movie: over the similar users that the      *)
(* similarity search returns, in order, similarity * rating for each one   *)
(* who watched the movie, plus rating * 1.0 if the movie's genre is among  *)
(* the genres of the active user's watched movies and rating * 0.3 if not. *)
(***************************************************************************)
RECURSIVE CollaborativeScore(_, _, _)
CollaborativeScore(similar, m, i) ==
    IF i = 0 THEN <<0, 1>>
    ELSE LET rest == CollaborativeScore(similar, m, i - 1)
             sim == similar[i][2]
         IN  IF m \in users[IntOfStr(similar[i][1])]
             THEN <<rest[1] * sim[2] * 10 + sim[1] * m.rating * rest[2], rest[2] * sim[2] * 10>>
             ELSE rest

ContentScore(m) ==
    IF m.genre \in {w.genre : w \in users[current_user[1]]}
    THEN <<m.rating, 10>> ELSE <<3 * m.rating, 100>>

ExpectedScore(similar, m) ==
    LET c == CollaborativeScore(similar, m, Len(similar))
        b == ContentScore(m)
    IN  <<c[1] * b[2] + b[1] * c[2], c[2] * b[2]>>

SameRational(x, y) == x[1] * y[2] = y[1] * x[2]

SimilarUsersOfActive ==
    find_similar_users(graph[1], StrOfInt(current_user[1]), 3)

(***************************************************************************)
(* C13.  Every Catalog movie the active user has not watched is scored     *)
(* (and listed, when at most 10 movies are scored) with the sum over the   *)
(* similar users who watched it of similarity * rating, plus rating *      *)
(* genre bonus, the bonus being 1.0 for a genre among those of the active  *)
(* user's watched movies and 0.3 otherwise; both passes contribute.  With  *)
(* no collaborative contribution and a user who watched only a Drama       *)
(* movie, "A" (Drama, 7.0) scores 7.0 and is listed before "B" (Comedy,    *)
(* 8.0), which scores 2.4.                                                 *)
(***************************************************************************)
C13_HybridScore ==
    (out.op = "get_recommendations" /\ out.sig = "return") =>
        LET watched == users[current_user[1]]
            similar == SimilarUsersOfActive
            scored == Elements(movies) \ watched
        IN  /\ \A k \in 1..Len(out.list) :
                   out.list[k][1] \in Elements(movies) =>
                       /\ out.list[k][1] \notin watched
                       /\ SameRational(out.list[k][2], ExpectedScore(similar, out.list[k][1]))
            /\ Len(out.list) < 10 =>
                   \A m \in scored : \E k \in 1..Len(out.list) : out.list[k][1] = m
            /\ (/\ movies = <<GenMovie(3), GenMovie(1), GenMovie(2)>>
                /\ watched = {GenMovie(3)}
                /\ similar = <<>>) =>
                   out.list = << <<GenMovie(1), <<7, 1>>>>, <<GenMovie(2), <<12, 5>>>> >>

C13_Witness ==
    /\ out.op = "get_recommendations"
    /\ out.sig = "return"
    /\ \E k, l, j \in 1..Len(out.list) :
           /\ out.list[k][1] \in Elements(movies)
           /\ CollaborativeScore(SimilarUsersOfActive, out.list[k][1],
                                 Len(SimilarUsersOfActive))[1] > 0
           /\ out.list[l][1].genre \in {w.genre : w \in users[current_user[1]]}
           /\ out.list[j][1].genre \notin {w.genre : w \in users[current_user[1]]}

(***************************************************************************)
(* C14.  After the data load and after any login and record_watched, the   *)
(* neighbour set that the graph queried by get_recommendations has for a   *)
(* user, under the node id str(user id) that get_recommendations looks up  *)
(* (empty if there is no such node), is the set of titles of that user's   *)
(* watched set.                                                            *)
(***************************************************************************)
C14_GraphMatchesWatched ==
    (pc \in {"loaded", "login", "menu", "exited"} /\ graph # <<>>) =>
        \A id \in DOMAIN users :
            (IF HasNode(graph[1], StrOfInt(id)) THEN graph[1].adj[StrOfInt(id)] ELSE {})
                = {m.title : m \in users[id]}

====
